---- MODULE Spec2Model ----
(***************************************************************************)
(* Firebase Cloud Functions of BontempApp: updateLikesCount (Firestore     *)
(* trigger), calculateDailyWinner (scheduled) and postComment (callable),  *)
(* over one document store.  Every await of a handler is a step boundary:  *)
(* the code between two awaits runs atomically (single-threaded JS), the   *)
(* store and the classifier answer in between.                             *)
(***************************************************************************)
EXTENDS Integers, Sequences, FiniteSets, TLC

(***************************************************************************)
(* Bounds of the model.                                                    *)
(***************************************************************************)
MaxPosts == 2
MaxUsers == 2
MaxEvents == 3
MaxDays == 1
MaxNanos == 1
MaxStoredLikes == 1
MaxRuns == 2
MaxCalls == 2

(***************************************************************************)
(* JavaScript values.  A string is a sequence of one-character strings.    *)
(***************************************************************************)
Undefined == [t |-> "undefined"]
Null == [t |-> "null"]
Num(n) == [t |-> "number", v |-> n]
Str(s) == [t |-> "string", v |-> s]
Bool(b) == [t |-> "boolean", v |-> b]

TypeOf(x) == IF x.t = "null" THEN "object" ELSE x.t

\* JS ToBoolean: undefined, null, 0, "" and false are falsy.
Truthy(x) ==
  CASE x.t = "undefined" -> FALSE
    [] x.t = "null" -> FALSE
    [] x.t = "number" -> x.v # 0
    [] x.t = "string" -> Len(x.v) # 0
    [] x.t = "boolean" -> x.v
    [] OTHER -> TRUE

\* JS a || b
OrElse(a, b) == IF Truthy(a) THEN a ELSE b

WhiteSpace == {" ", "\t", "\n"}

RECURSIVE TrimStart(_)
TrimStart(s) ==
  IF s = <<>> THEN s
  ELSE IF Head(s) \in WhiteSpace THEN TrimStart(Tail(s)) ELSE s

RECURSIVE TrimEnd(_)
TrimEnd(s) ==
  IF s = <<>> THEN s
  ELSE IF s[Len(s)] \in WhiteSpace THEN TrimEnd(SubSeq(s, 1, Len(s) - 1)) ELSE s

\* String.prototype.trim
Trim(s) == TrimEnd(TrimStart(s))

UpperOf(c) ==
  CASE c = "a" -> "A" [] c = "e" -> "E" [] c = "f" -> "F" [] c = "n" -> "N"
    [] c = "s" -> "S" [] c = "u" -> "U" [] c = "o" -> "O" [] c = "k" -> "K"
    [] OTHER -> c

\* String.prototype.toUpperCase
ToUpperCase(s) == [i \in 1..Len(s) |-> UpperOf(s[i])]

\* String.prototype.includes
Includes(s, sub) ==
  \E i \in 0..(Len(s) - Len(sub)) : SubSeq(s, i + 1, i + Len(sub)) = sub

Rep(c, n) == [i \in 1..n |-> c]

(***************************************************************************)
(* The document store.                                                     *)
(***************************************************************************)
Digit == <<"1", "2", "3", "4", "5", "6", "7", "8", "9">>
Pid(i) == <<"p", Digit[i]>>
PostIds == {Pid(i) : i \in 1..MaxPosts}
Users == 1..MaxUsers
NoDoc == [t |-> "nodoc"]

VARIABLES
  now,          \* the clock: [seconds, nanoseconds]
  posts,        \* pubblicazioni/{pubId}: a document or NoDoc
  likesDocs,    \* pubblicazioni/{pubId}/likes: the ids of the documents
  comments,     \* pubblicazioni/{pubId}/comments: the documents, in order of creation
  dailyWinner,  \* configurazioniApp/vincitoreDelGiorno: a document or NoDoc
  ulc,          \* the invocations of updateLikesCount, one per trigger
  cdw,          \* the runs of calculateDailyWinner
  calls,        \* the invocations of postComment
  peak          \* history: the largest size each likes subcollection has had

vars == <<now, posts, likesDocs, comments, dailyWinner, ulc, cdw, calls, peak>>

Init ==
  /\ now = [seconds |-> 0, nanoseconds |-> 0]
  /\ posts = [p \in PostIds |-> NoDoc]
  /\ likesDocs = [p \in PostIds |-> {}]
  /\ comments = [p \in PostIds |-> <<>>]
  /\ dailyWinner = NoDoc
  /\ ulc = <<>>
  /\ cdw = <<>>
  /\ calls = <<>>
  /\ peak = [p \in PostIds |-> 0]

(***************************************************************************)
(* The environment: clients publish posts and create, rewrite or delete    *)
(* their like documents; time passes.                                      *)
(***************************************************************************)
FullMeta ==
  [imageUrl |-> Str(<<"i">>), thumbnailUrl |-> Str(<<"t">>), userName |-> Str(<<"n">>),
   userPhotoURL |-> Str(<<"f">>), description |-> Str(<<"d">>)]

BareMeta ==
  [imageUrl |-> Str(<<"i">>), thumbnailUrl |-> Undefined, userName |-> Undefined,
   userPhotoURL |-> Undefined, description |-> Undefined]

Metas == {FullMeta, BareMeta}

\* The likes field of a stored post: absent, or the count a recount left there.
StoredLikes == {Undefined} \cup {Num(n) : n \in 0..MaxStoredLikes}

PostDoc(meta, likes, ts) ==
  [imageUrl |-> meta.imageUrl, thumbnailUrl |-> meta.thumbnailUrl, likes |-> likes,
   userName |-> meta.userName, userPhotoURL |-> meta.userPhotoURL, timestamp |-> ts,
   description |-> meta.description]

CreatePost(p, meta, likes) ==
  /\ posts[p] = NoDoc
  /\ posts' = [posts EXCEPT ![p] = PostDoc(meta, likes, now)]
  /\ UNCHANGED <<peak, now, likesDocs, comments, dailyWinner, ulc, cdw, calls>>

(***************************************************************************)
(* updateLikesCount                                                        *)
(***************************************************************************)
\* The errors a handler meets or throws.
HttpsError(code) == [class |-> "HttpsError", code |-> code]
TypeError == [class |-> "TypeError"]
ServiceError == [class |-> "Error"]

\* The outcomes of an invocation: pending, {success: true}, null, or the
\* error it throws.
Pending == [kind |-> "pending"]
Success == [kind |-> "success"]
Throws(err) == [kind |-> "throws", error |-> err]
ReturnsNull == [kind |-> "returns", value |-> Null]

\* onWrite fires: pubId is taken from the path and the likes query is issued.
\* cards, dirty and overwrote record the history of the invocation: the sizes
\* the subcollection has had since it started, whether a like was created or
\* deleted after its read, and the likes value its update replaced.
ULCStart(pubId, card) ==
  [pubId |-> pubId, pc |-> "get", likesCount |-> Undefined, error |-> FALSE,
   outcome |-> Pending, gets |-> 1, updates |-> 0,
   cards |-> {card}, dirty |-> FALSE, overwrote |-> Undefined]

Observe(inv, p, card, changed) ==
  IF inv.pubId = p /\ inv.pc # "done"
    THEN [inv EXCEPT !.cards = @ \cup {card}, !.dirty = @ \/ (changed /\ inv.pc = "update")]
    ELSE inv

\* A write to likes/{userId} of post p leaves the documents docs and fires the trigger.
Trigger(p, docs, changed) ==
  /\ Len(ulc) < MaxEvents
  /\ ulc' = Append([k \in DOMAIN ulc |-> Observe(ulc[k], p, Cardinality(docs), changed)],
                   ULCStart(p, Cardinality(docs)))
  /\ peak' = [peak EXCEPT ![p] = IF Cardinality(docs) > @ THEN Cardinality(docs) ELSE @]

LikeCreate(p, u) ==
  /\ u \notin likesDocs[p]
  /\ likesDocs' = [likesDocs EXCEPT ![p] = @ \cup {u}]
  /\ Trigger(p, likesDocs[p] \cup {u}, TRUE)
  /\ UNCHANGED <<now, posts, comments, dailyWinner, cdw, calls>>

LikeDelete(p, u) ==
  /\ u \in likesDocs[p]
  /\ likesDocs' = [likesDocs EXCEPT ![p] = @ \ {u}]
  /\ Trigger(p, likesDocs[p] \ {u}, TRUE)
  /\ UNCHANGED <<now, posts, comments, dailyWinner, cdw, calls>>

LikeUpdate(p, u) ==
  /\ u \in likesDocs[p]
  /\ Trigger(p, likesDocs[p], FALSE)
  /\ UNCHANGED <<now, posts, likesDocs, comments, dailyWinner, cdw, calls>>

\* Mutants of LikesCount: one more than the stored count; the likes of every post.
LikesCountIncrement(p) ==
  IF posts[p] # NoDoc /\ posts[p].likes.t = "number" THEN posts[p].likes.v + 1 ELSE 1

RECURSIVE LikesOfPosts(_)
LikesOfPosts(S) ==
  IF S = {} THEN 0
  ELSE LET q == CHOOSE q \in S : TRUE IN Cardinality(likesDocs[q]) + LikesOfPosts(S \ {q})

LikesCountAllPosts(p) == LikesOfPosts(PostIds)

\* likesSnapshot.size
LikesCount(p) == Cardinality(likesDocs[p])

\* The likes query answers: the count is taken and the update is issued.
ULCGet(i) ==
  /\ ulc[i].pc = "get"
  /\ ulc' = [ulc EXCEPT ![i].pc = "update", ![i].likesCount = Num(LikesCount(ulc[i].pubId)),
                        ![i].updates = 1]
  /\ UNCHANGED <<peak, now, posts, likesDocs, comments, dailyWinner, cdw, calls>>

\* Mutant of ULCCatch: the error is thrown again.
ULCCatchRethrow(inv) == [inv EXCEPT !.pc = "done", !.error = TRUE, !.outcome = Throws(ServiceError)]

\* The catch block: the error is logged and the handler returns null.
ULCCatch(inv) == [inv EXCEPT !.pc = "done", !.error = TRUE, !.outcome = ReturnsNull]

ULCGetFails(i) ==
  /\ ulc[i].pc = "get"
  /\ ulc' = [ulc EXCEPT ![i] = ULCCatch(@)]
  /\ UNCHANGED <<peak, now, posts, likesDocs, comments, dailyWinner, cdw, calls>>

\* Mutant of ULCUpdate: set({likes}, {merge: true}) in place of update().
ULCUpdateBySet(i) ==
  /\ ulc[i].pc = "update"
  /\ posts' = [posts EXCEPT ![ulc[i].pubId] =
                 IF @ = NoDoc THEN PostDoc(BareMeta, ulc[i].likesCount, now)
                 ELSE [@ EXCEPT !.likes = ulc[i].likesCount]]
  /\ ulc' = [ulc EXCEPT ![i].pc = "done", ![i].outcome = ReturnsNull]
  /\ UNCHANGED <<peak, now, likesDocs, comments, dailyWinner, cdw, calls>>

\* postRef.update({likes: likesCount}): rejects when the post does not exist.
ULCUpdate(i) ==
  /\ ulc[i].pc = "update"
  /\ IF posts[ulc[i].pubId] = NoDoc
       THEN /\ ulc' = [ulc EXCEPT ![i] = ULCCatch(@)]
            /\ UNCHANGED posts
       ELSE /\ posts' = [posts EXCEPT ![ulc[i].pubId].likes = ulc[i].likesCount]
            /\ ulc' = [ulc EXCEPT ![i].pc = "done", ![i].outcome = ReturnsNull,
                                  ![i].overwrote = posts[ulc[i].pubId].likes]
  /\ UNCHANGED <<peak, now, likesDocs, comments, dailyWinner, cdw, calls>>

ULCUpdateFails(i) ==
  /\ ulc[i].pc = "update"
  /\ ulc' = [ulc EXCEPT ![i] = ULCCatch(@)]
  /\ UNCHANGED <<peak, now, posts, likesDocs, comments, dailyWinner, cdw, calls>>

NextLikes ==
  \/ \E p \in PostIds : CreatePost(p, BareMeta, Undefined)
  \/ \E p \in PostIds, u \in Users : LikeCreate(p, u)
  \/ \E p \in PostIds, u \in Users : LikeDelete(p, u)
  \/ \E p \in PostIds, u \in Users : LikeUpdate(p, u)
  \/ \E i \in DOMAIN ulc : ULCGet(i)
  \/ \E i \in DOMAIN ulc : ULCGetFails(i)
  \/ \E i \in DOMAIN ulc : ULCUpdate(i)
  \/ \E i \in DOMAIN ulc : ULCUpdateFails(i)

SpecLikes == Init /\ [][NextLikes]_vars

(***************************************************************************)
(* calculateDailyWinner                                                    *)
(***************************************************************************)
\* 24 * 60 * 60
DaySeconds == 24 * 60 * 60

TickDay ==
  /\ now.seconds < MaxDays * DaySeconds
  /\ now' = [now EXCEPT !.seconds = @ + DaySeconds]
  /\ UNCHANGED <<peak, posts, likesDocs, comments, dailyWinner, ulc, cdw, calls>>

TickNano ==
  /\ now.nanoseconds < MaxNanos
  /\ now' = [now EXCEPT !.nanoseconds = @ + 1]
  /\ UNCHANGED <<peak, posts, likesDocs, comments, dailyWinner, ulc, cdw, calls>>

\* new Timestamp(now.seconds - (24 * 60 * 60), now.nanoseconds)
TwentyFourHoursAgo(at) ==
  [seconds |-> at.seconds - DaySeconds, nanoseconds |-> at.nanoseconds]

\* Timestamp order: seconds, then nanoseconds.
TsLess(a, b) ==
  \/ a.seconds < b.seconds
  \/ a.seconds = b.seconds /\ a.nanoseconds < b.nanoseconds

TsGeq(a, b) == ~TsLess(a, b)

IdIndex(p) == CHOOSE i \in 1..MaxPosts : Pid(i) = p

\* orderBy('timestamp', 'desc'): later first; equal timestamps by document id,
\* in the same direction.
ComesBefore(p, q) ==
  \/ TsLess(posts[q].timestamp, posts[p].timestamp)
  \/ posts[q].timestamp = posts[p].timestamp /\ IdIndex(p) > IdIndex(q)

\* Mutant of InWindow: the query has no where clause.
InWindowNoFilter(p, at) == posts[p] # NoDoc

\* where('timestamp', '>=', twentyFourHoursAgo)
InWindow(p, at) ==
  /\ posts[p] # NoDoc
  /\ TsGeq(posts[p].timestamp, TwentyFourHoursAgo(at))

RECURSIVE Ordered(_)
Ordered(S) ==
  IF S = {} THEN <<>>
  ELSE LET first == CHOOSE p \in S : \A q \in S \ {p} : ComesBefore(p, q)
       IN  <<[id |-> first, data |-> posts[first]]>> \o Ordered(S \ {first})

\* The posts query: the documents of the window, in scan order.
QueryPosts(at) == Ordered({p \in PostIds : InWindow(p, at)})

\* Mutants of ScanStart: the maximum starts at 0; the maximum of the last record is kept.
ScanStartZero == [winner |-> Null, maxLikes |-> 0]

ScanStartStale ==
  [winner |-> Null,
   maxLikes |-> IF dailyWinner # NoDoc /\ dailyWinner.hasWinner
                  THEN dailyWinner.winner.likes.v ELSE -1]

\* let winner = null; let maxLikes = -1;
ScanStart == [winner |-> Null, maxLikes |-> -1]

WinnerOf(doc, likes) ==
  [postId |-> Str(doc.id),
   imageUrl |-> doc.data.imageUrl,
   thumbnailUrl |-> OrElse(doc.data.thumbnailUrl, doc.data.imageUrl),
   likes |-> likes,
   userName |-> OrElse(doc.data.userName, Str(<<"A", "n", "o", "n", "i", "m", "o">>)),
   userPhotoURL |-> OrElse(doc.data.userPhotoURL, Str(<<>>)),
   timestamp |-> doc.data.timestamp,
   description |-> OrElse(doc.data.description, Str(<<>>))]

\* Mutant of Exceeds: likes >= maxLikes.
ExceedsOrEquals(likes, maxLikes) == likes.v >= maxLikes

\* if (likes > maxLikes)
Exceeds(likes, maxLikes) == likes.v > maxLikes

\* The body of postsSnapshot.forEach.
ScanStep(acc, doc) ==
  LET likes == OrElse(doc.data.likes, Num(0))
  IN  IF Exceeds(likes, acc.maxLikes)
        THEN [winner |-> WinnerOf(doc, likes), maxLikes |-> likes.v]
        ELSE acc

RECURSIVE ScanFrom(_, _)
ScanFrom(acc, docs) ==
  IF docs = <<>> THEN acc ELSE ScanFrom(ScanStep(acc, Head(docs)), Tail(docs))

Scan(docs) == ScanFrom(ScanStart, docs)

NoWinnerMessage == Str(<<"N", "e", "s", "s", "u", "n", "a", " ", "p", "u", "b", "b", "l", "i", "c", "a", "z", "i", "o", "n", "e", " ", "o", "g", "g", "i">>)

\* The documents handed to set(); calculatedAt is filled in by the store.
PlaceholderData == [hasWinner |-> FALSE, message |-> NoWinnerMessage]

WinnerData(winner) == [hasWinner |-> TRUE, winner |-> winner]

\* The schedule fires: the window bound is computed and the query is issued.
CDWStart ==
  /\ Len(cdw) < MaxRuns
  /\ cdw' = Append(cdw, [pc |-> "query", at |-> now, snapshot |-> <<>>,
                         pending |-> NoDoc, wrote |-> NoDoc, error |-> FALSE,
                         outcome |-> Pending, queries |-> 1, sets |-> 0])
  /\ UNCHANGED <<peak, now, posts, likesDocs, comments, dailyWinner, ulc, calls>>

\* The query answers: the placeholder or the scan's winner is handed to set().
CDWQuery(i) ==
  /\ cdw[i].pc = "query"
  /\ LET docs == QueryPosts(cdw[i].at)
     IN  cdw' = [cdw EXCEPT ![i].pc = "set", ![i].snapshot = docs, ![i].sets = 1,
                            ![i].pending = IF docs = <<>> THEN PlaceholderData
                                           ELSE WinnerData(Scan(docs).winner)]
  /\ UNCHANGED <<peak, now, posts, likesDocs, comments, dailyWinner, ulc, calls>>

\* Mutant of CDWCatch: the error is thrown again.
CDWCatchRethrow(run) ==
  [run EXCEPT !.pc = "done", !.error = TRUE, !.outcome = Throws(ServiceError)]

\* The catch block: the error is logged and the run returns null.
CDWCatch(run) == [run EXCEPT !.pc = "done", !.error = TRUE, !.outcome = ReturnsNull]

CDWQueryFails(i) ==
  /\ cdw[i].pc = "query"
  /\ cdw' = [cdw EXCEPT ![i] = CDWCatch(@)]
  /\ UNCHANGED <<peak, now, posts, likesDocs, comments, dailyWinner, ulc, calls>>

\* Mutant of SetDoc: set(data, {merge: true}).
SetDocMerge(old, data) ==
  IF old = NoDoc THEN data @@ [calculatedAt |-> now]
  ELSE ([calculatedAt |-> now] @@ data) @@ old

\* doc('vincitoreDelGiorno').set(data): the document is replaced, not merged.
SetDoc(old, data) == data @@ [calculatedAt |-> now]

\* set() succeeds; the winner branch then logs winner.postId, which throws on null.
CDWSet(i) ==
  /\ cdw[i].pc = "set"
  /\ dailyWinner' = SetDoc(dailyWinner, cdw[i].pending)
  /\ cdw' = [cdw EXCEPT ![i].pc = "done", ![i].wrote = dailyWinner', ![i].outcome = ReturnsNull,
                        ![i].error = cdw[i].pending.hasWinner /\ cdw[i].pending.winner = Null]
  /\ UNCHANGED <<peak, now, posts, likesDocs, comments, ulc, calls>>

CDWSetFails(i) ==
  /\ cdw[i].pc = "set"
  /\ cdw' = [cdw EXCEPT ![i] = CDWCatch(@)]
  /\ UNCHANGED <<peak, now, posts, likesDocs, comments, dailyWinner, ulc, calls>>

NextWinner ==
  \/ \E p \in PostIds, m \in Metas, l \in StoredLikes : CreatePost(p, m, l)
  \/ TickDay
  \/ TickNano
  \/ CDWStart
  \/ \E i \in DOMAIN cdw : CDWQuery(i)
  \/ \E i \in DOMAIN cdw : CDWQueryFails(i)
  \/ \E i \in DOMAIN cdw : CDWSet(i)
  \/ \E i \in DOMAIN cdw : CDWSetFails(i)

SpecWinner == Init /\ [][NextWinner]_vars

(***************************************************************************)
(* postComment                                                             *)
(***************************************************************************)
Obj(fields) == [t |-> "object", v |-> fields]

\* obj.name, for an object or a primitive (a primitive has no such property).
Prop(obj, name) ==
  IF obj.t = "object" /\ name \in DOMAIN obj.v THEN obj.v[name] ELSE Undefined

\* Reading a property of undefined or null throws a TypeError.
Nullish(x) == x.t \in {"undefined", "null"}

MaxCommentLength == 500

AnonymousProvider == <<"a", "n", "o", "n", "y", "m", "o", "u", "s">>

Passed == [kind |-> "passed"]

\* Mutant of CheckIdentity: the provider is not looked at.
CheckIdentityAnyProvider(auth) ==
  IF ~Truthy(auth) THEN Throws(HttpsError("unauthenticated")) ELSE Passed

\* Section 1: the error thrown, or Passed.
CheckIdentity(auth) ==
  IF ~Truthy(auth) THEN Throws(HttpsError("unauthenticated"))
  ELSE IF Nullish(Prop(Prop(auth, "token"), "firebase")) THEN Throws(TypeError)
  ELSE IF Prop(Prop(Prop(auth, "token"), "firebase"), "sign_in_provider") = Str(AnonymousProvider)
    THEN Throws(HttpsError("permission-denied"))
  ELSE Passed

\* Mutant of TooLong: trimmedText.length >= 500.
TooLongOffByOne(trimmedText) == Len(trimmedText) >= MaxCommentLength

\* if (trimmedText.length > 500)
TooLong(trimmedText) == Len(trimmedText) > MaxCommentLength

\* Section 2: the error thrown, or the post and the trimmed text that go on.
CheckInput(data) ==
  IF Nullish(data) THEN Throws(TypeError)
  ELSE LET pubId == Prop(data, "pubId")
           text == Prop(data, "text")
       IN  IF ~Truthy(pubId) \/ TypeOf(pubId) # "string"
             THEN Throws(HttpsError("invalid-argument"))
           ELSE IF ~Truthy(text) \/ TypeOf(text) # "string"
             THEN Throws(HttpsError("invalid-argument"))
           ELSE IF Len(Trim(text.v)) = 0
             THEN Throws(HttpsError("invalid-argument"))
           ELSE IF TooLong(Trim(text.v))
             THEN Throws(HttpsError("invalid-argument"))
           ELSE [kind |-> "valid", pubId |-> pubId.v, trimmedText |-> Trim(text.v)]

\* Mutant of Validate: the input is validated before the identity.
ValidateInputFirst(auth, data) ==
  IF CheckInput(data).kind # "valid" THEN CheckInput(data)
  ELSE IF CheckIdentity(auth) # Passed THEN CheckIdentity(auth)
  ELSE CheckInput(data)

\* Sections 1 and 2 in the order of the handler.
Validate(auth, data) ==
  IF CheckIdentity(auth) # Passed THEN CheckIdentity(auth) ELSE CheckInput(data)

\* response.text().trim().toUpperCase()
ResponseText(response) == ToUpperCase(Trim(response.text))

\* Mutant of Blocked: the verdict is not upper-cased.
BlockedCaseSensitive(response) ==
  \/ Truthy(response.blockReason)
  \/ Includes(Trim(response.text), <<"U", "N", "S", "A", "F", "E">>)

\* response.promptFeedback?.blockReason || responseText.includes('UNSAFE')
Blocked(response) ==
  \/ Truthy(response.blockReason)
  \/ Includes(ResponseText(response), <<"U", "N", "S", "A", "F", "E">>)

\* Mutant of CommentData: the text is stored as received.
CommentDataUntrimmed(call) ==
  [text |-> Prop(call.data, "text"),
   userId |-> Prop(call.auth, "uid"),
   userName |-> OrElse(Prop(Prop(call.auth, "token"), "name"), Str(<<"U", "t", "e", "n", "t", "e">>)),
   userImage |-> OrElse(Prop(Prop(call.auth, "token"), "picture"), Null),
   flagCount |-> Num(0),
   isHidden |-> Bool(FALSE)]

CommentData(call) ==
  [text |-> Str(call.trimmedText),
   userId |-> Prop(call.auth, "uid"),
   userName |-> OrElse(Prop(Prop(call.auth, "token"), "name"), Str(<<"U", "t", "e", "n", "t", "e">>)),
   userImage |-> OrElse(Prop(Prop(call.auth, "token"), "picture"), Null),
   flagCount |-> Num(0),
   isHidden |-> Bool(FALSE)]

\* Mutant of Rethrow: every caught error becomes internal.
RethrowAlwaysInternal(err) == Throws(HttpsError("internal"))

\* The catch block: an HttpsError is thrown again, anything else becomes internal.
Rethrow(err) ==
  IF err.class = "HttpsError" THEN Throws(err) ELSE Throws(HttpsError("internal"))

\* The callers and the payloads.
Token(provider, name, picture) ==
  Obj([firebase |-> Obj([sign_in_provider |-> Str(provider)]), name |-> name, picture |-> picture])

AnonymousAuth == Obj([uid |-> Str(<<"a">>), token |-> Token(AnonymousProvider, Undefined, Undefined)])
GoogleAuth == Obj([uid |-> Str(<<"g">>), token |-> Token(<<"g", "o", "o", "g", "l", "e", ".", "c", "o", "m">>, Str(<<"A", "n", "n">>), Str(<<"x">>))])
PasswordAuth == Obj([uid |-> Str(<<"w">>), token |-> Token(<<"p", "a", "s", "s", "w", "o", "r", "d">>, Undefined, Str(<<>>))])
NoProviderAuth == Obj([uid |-> Str(<<"n">>), token |-> Obj([name |-> Str(<<"N">>)])])

\* Callers that section 1 lets through, and the others.
SignedInAuths == {GoogleAuth, PasswordAuth}
OtherAuths == {Undefined, AnonymousAuth, NoProviderAuth}

OkText == Str(<<" ", "o", "k", "\t">>)
LongestText == Str(<<" ">> \o Rep("a", MaxCommentLength) \o <<"\n">>)

ValidPayloads ==
  {Obj([pubId |-> Str(Pid(1)), text |-> OkText]),
   Obj([pubId |-> Str(Pid(MaxPosts)), text |-> LongestText])}

InvalidPayloads ==
  {Null, Num(3), Obj([text |-> OkText]), Obj([pubId |-> Str(Pid(1))]),
   Obj([pubId |-> Num(7), text |-> OkText]),
   Obj([pubId |-> Str(<<>>), text |-> OkText]),
   Obj([pubId |-> Str(Pid(1)), text |-> Num(5)]),
   Obj([pubId |-> Str(Pid(1)), text |-> Str(<<>>)]),
   Obj([pubId |-> Str(Pid(1)), text |-> Str(<<" ", "\n">>)]),
   Obj([pubId |-> Str(Pid(1)), text |-> Str(Rep("a", MaxCommentLength + 1))])}

\* The calls made: every payload by the signed-in callers, and by the
\* others a missing, a valid and an invalid payload.
Requests ==
  (SignedInAuths \X (ValidPayloads \cup InvalidPayloads))
    \cup (OtherAuths \X ({Null, Obj([pubId |-> Num(7), text |-> OkText])} \cup ValidPayloads))

Responses ==
  {[text |-> <<"S", "A", "F", "E">>, blockReason |-> Undefined],
   [text |-> <<"U", "N", "S", "A", "F", "E">>, blockReason |-> Undefined],
   [text |-> <<" ", "u", "n", "s", "a", "f", "e", "\n">>, blockReason |-> Undefined],
   [text |-> <<"S", "A", "F", "E">>, blockReason |-> Str(<<"S", "A", "F", "E", "T", "Y">>)],
   [text |-> <<>>, blockReason |-> Undefined],
   [text |-> <<"o", "k">>, blockReason |-> Undefined]}

\* A client calls: sections 1 and 2 run, and the classifier is called.
PCCall(auth, data) ==
  /\ Len(calls) < MaxCalls
  /\ LET v == Validate(auth, data)
         call == [auth |-> auth, data |-> data, pc |-> "done", pubId |-> <<>>,
                  trimmedText |-> <<>>, response |-> Undefined, raised |-> Undefined,
                  classifierCalls |-> 0, addCalls |-> 0, outcome |-> v]
     IN  calls' = Append(calls,
           IF v.kind = "valid"
             THEN [call EXCEPT !.pc = "classify", !.pubId = v.pubId,
                               !.trimmedText = v.trimmedText, !.classifierCalls = 1,
                               !.outcome = Pending]
             ELSE call)
  /\ UNCHANGED <<peak, now, posts, likesDocs, comments, dailyWinner, ulc, cdw>>

\* An error raised inside the try block reaches the catch block.
Caught(call, err) == [call EXCEPT !.pc = "done", !.raised = err, !.outcome = Rethrow(err)]

\* The classifier answers: a blocked comment is refused, a safe one is handed to add().
PCClassified(i, response) ==
  /\ calls[i].pc = "classify"
  /\ calls' = [calls EXCEPT ![i] =
       IF Blocked(response)
         THEN Caught([@ EXCEPT !.response = response], HttpsError("invalid-argument"))
         ELSE [@ EXCEPT !.pc = "add", !.response = response, !.addCalls = 1]]
  /\ UNCHANGED <<peak, now, posts, likesDocs, comments, dailyWinner, ulc, cdw>>

\* generateContent, result.response or response.text() throws.
PCClassifierFails(i) ==
  /\ calls[i].pc = "classify"
  /\ calls' = [calls EXCEPT ![i] = Caught(@, ServiceError)]
  /\ UNCHANGED <<peak, now, posts, likesDocs, comments, dailyWinner, ulc, cdw>>

\* Mutant of AddComment: doc(<fixed id>).set(commentData), which replaces.
AddCommentOverwrite(coll, id, data) == <<[id |-> id, data |-> data @@ [timestamp |-> now]]>>

\* collection('comments').add(commentData): a new document, stamped by the store.
AddComment(coll, id, data) == Append(coll, [id |-> id, data |-> data @@ [timestamp |-> now]])

PCAdded(i) ==
  /\ calls[i].pc = "add"
  /\ comments' = [comments EXCEPT ![calls[i].pubId] = AddComment(@, i, CommentData(calls[i]))]
  /\ calls' = [calls EXCEPT ![i].pc = "done", ![i].outcome = Success]
  /\ UNCHANGED <<peak, now, posts, likesDocs, dailyWinner, ulc, cdw>>

PCAddFails(i) ==
  /\ calls[i].pc = "add"
  /\ calls' = [calls EXCEPT ![i] = Caught(@, ServiceError)]
  /\ UNCHANGED <<peak, now, posts, likesDocs, comments, dailyWinner, ulc, cdw>>

NextComments ==
  \/ \E r \in Requests : PCCall(r[1], r[2])
  \/ \E i \in DOMAIN calls, r \in Responses : PCClassified(i, r)
  \/ \E i \in DOMAIN calls : PCClassifierFails(i)
  \/ \E i \in DOMAIN calls : PCAdded(i)
  \/ \E i \in DOMAIN calls : PCAddFails(i)

SpecComments == Init /\ [][NextComments]_vars

(***************************************************************************)
(* Properties of updateLikesCount                                          *)
(***************************************************************************)
\* Every invocation has completed without an error and one of them was for p.
ULCSettled(p) ==
  /\ posts[p] # NoDoc
  /\ \E i \in DOMAIN ulc : ulc[i].pubId = p
  /\ \A i \in DOMAIN ulc : ulc[i].pc = "done" /\ ~ulc[i].error

\* C1: once every triggered invocation has completed, the likes field of the
\* post equals the number of documents in its likes subcollection.
C1_SettledLikesEqualCount ==
  \A p \in PostIds : ULCSettled(p) => posts[p].likes = Num(LikesCount(p))

(***************************************************************************)
(* Properties of calculateDailyWinner                                      *)
(***************************************************************************)
\* The like count of a post, a missing field counted as 0.
LikesOf(data) == IF data.likes = Undefined THEN 0 ELSE data.likes.v

MaxLikesOf(docs) ==
  CHOOSE m \in {LikesOf(docs[k].data) : k \in DOMAIN docs} :
    \A k \in DOMAIN docs : LikesOf(docs[k].data) <= m

\* Run i has written the record.
Persisted(i) == cdw[i].pc = "done" /\ cdw[i].wrote # NoDoc

HasWinner(r) == "winner" \in DOMAIN r /\ r.winner # Null

\* C3: with a non-empty window the persisted winner is a post of the window
\* whose like count is the maximum of the window, and winner.likes is that maximum.
C3_WinnerHasMaxLikes ==
  \A i \in DOMAIN cdw :
    Persisted(i) /\ cdw[i].snapshot # <<>> =>
      LET docs == cdw[i].snapshot
          w == cdw[i].wrote
      IN  /\ HasWinner(w)
          /\ \E k \in DOMAIN docs :
               /\ Str(docs[k].id) = w.winner.postId
               /\ LikesOf(docs[k].data) = MaxLikesOf(docs)
          /\ \A k \in DOMAIN docs : LikesOf(docs[k].data) <= w.winner.likes.v
          /\ w.winner.likes = Num(MaxLikesOf(docs))

C3_Witness ==
  \E i \in DOMAIN cdw :
    /\ Persisted(i)
    /\ Len(cdw[i].snapshot) >= 2
    /\ \E k \in DOMAIN cdw[i].snapshot : cdw[i].snapshot[k].data.likes = Undefined
    /\ \E k \in DOMAIN cdw[i].snapshot : LikesOf(cdw[i].snapshot[k].data) < MaxLikesOf(cdw[i].snapshot)
    /\ dailyWinner = cdw[i].wrote

\* C4: among the posts of the window that share the maximum like count, the
\* winner is the one with the latest timestamp.
C4_TieGoesToLatest ==
  \A i \in DOMAIN cdw :
    Persisted(i) /\ cdw[i].snapshot # <<>> =>
      LET docs == cdw[i].snapshot
          w == cdw[i].wrote
      IN  /\ HasWinner(w)
          /\ \A k \in DOMAIN docs :
               /\ LikesOf(docs[k].data) = MaxLikesOf(docs)
               /\ docs[k].data.timestamp # w.winner.timestamp
               => TsLess(docs[k].data.timestamp, w.winner.timestamp)

C4_Witness ==
  \E i \in DOMAIN cdw :
    /\ Persisted(i)
    /\ \E k, l \in DOMAIN cdw[i].snapshot :
         /\ LikesOf(cdw[i].snapshot[k].data) = MaxLikesOf(cdw[i].snapshot)
         /\ LikesOf(cdw[i].snapshot[l].data) = MaxLikesOf(cdw[i].snapshot)
         /\ cdw[i].snapshot[k].data.timestamp # cdw[i].snapshot[l].data.timestamp

PlaceholderShape(r) ==
  /\ DOMAIN r = {"hasWinner", "message", "calculatedAt"}
  /\ r.hasWinner = FALSE
  /\ r.message.t = "string" /\ Len(r.message.v) > 0

WinnerShape(r) ==
  /\ DOMAIN r = {"hasWinner", "winner", "calculatedAt"}
  /\ r.hasWinner = TRUE
  /\ r.winner # Null

\* C5: the record holds exactly one of winner and message: a run over an empty
\* window leaves hasWinner=false with a non-empty message and no winner, a run
\* over a non-empty window leaves hasWinner=true with a winner and no message,
\* and nothing of the record before the run survives.
C5_RecordHoldsWinnerOrMessage ==
  /\ dailyWinner # NoDoc => PlaceholderShape(dailyWinner) \/ WinnerShape(dailyWinner)
  /\ \A i \in DOMAIN cdw :
       Persisted(i) =>
         IF cdw[i].snapshot = <<>> THEN PlaceholderShape(cdw[i].wrote)
         ELSE WinnerShape(cdw[i].wrote)

C5_Witness ==
  \E i, j \in DOMAIN cdw :
    /\ Persisted(i) /\ Persisted(j)
    /\ cdw[i].snapshot # <<>> /\ cdw[j].snapshot = <<>>
    /\ TsLess(cdw[i].wrote.calculatedAt, cdw[j].wrote.calculatedAt)
    /\ dailyWinner = cdw[j].wrote

WithoutCalculatedAt(r) == [f \in DOMAIN r \ {"calculatedAt"} |-> r[f]]

\* C6: two runs whose queries returned the same posts write the same record,
\* calculatedAt aside.
C6_SameWindowSameRecord ==
  \A i, j \in DOMAIN cdw :
    Persisted(i) /\ Persisted(j) /\ cdw[i].snapshot = cdw[j].snapshot =>
      WithoutCalculatedAt(cdw[i].wrote) = WithoutCalculatedAt(cdw[j].wrote)

C6_Witness ==
  \E i, j \in DOMAIN cdw :
    /\ i # j /\ Persisted(i) /\ Persisted(j)
    /\ cdw[i].snapshot = cdw[j].snapshot /\ Len(cdw[i].snapshot) >= 2
    /\ cdw[i].at # cdw[j].at
    /\ cdw[i].wrote.calculatedAt # cdw[j].wrote.calculatedAt

(***************************************************************************)
(* Properties of postComment                                               *)
(***************************************************************************)
Authenticated(auth) == auth # Undefined

ProviderOf(auth) == Prop(Prop(Prop(auth, "token"), "firebase"), "sign_in_provider")

IsAnonymous(auth) == Authenticated(auth) /\ ProviderOf(auth) = Str(AnonymousProvider)

NonAnonymous(auth) ==
  Authenticated(auth) /\ ProviderOf(auth).t = "string" /\ ProviderOf(auth) # Str(AnonymousProvider)

ReportsBlock(response) == response.blockReason # Undefined

VerdictUnsafe(response) == Includes(ToUpperCase(response.text), <<"U", "N", "S", "A", "F", "E">>)

Answered(call) == call.response # Undefined

\* The comments call i has created: <<post, position>>.
CommentsBy(i) == {pk \in PostIds \X (1..MaxCalls) : pk[2] \in DOMAIN comments[pk[1]] /\ comments[pk[1]][pk[2]].id = i}

NoCommentBy(i) == \A p \in PostIds : \A k \in DOMAIN comments[p] : comments[p][k].id # i

Rejected(call, code) == call.pc = "done" /\ call.outcome = Throws(HttpsError(code))

\* C2: every stored comment comes from a call of an authenticated, non-anonymous
\* caller, holds the trimmed input of 1..500 characters, and was judged on an
\* answer with no block reason and no UNSAFE in the verdict; a call whose
\* answer has a block reason or UNSAFE in the upper-cased verdict is rejected
\* with invalid-argument and stores nothing.
C2_CommentsOnlyFromSafeCalls ==
  /\ \A p \in PostIds : \A k \in DOMAIN comments[p] :
       LET c == comments[p][k]
       IN  /\ c.id \in DOMAIN calls
           /\ calls[c.id].outcome = Success
           /\ Prop(calls[c.id].data, "pubId") = Str(p)
           /\ NonAnonymous(calls[c.id].auth)
           /\ c.data.text = Str(Trim(Prop(calls[c.id].data, "text").v))
           /\ Len(c.data.text.v) \in 1..MaxCommentLength
           /\ Answered(calls[c.id])
           /\ ~ReportsBlock(calls[c.id].response)
           /\ ~VerdictUnsafe(calls[c.id].response)
  /\ \A i \in DOMAIN calls :
       Answered(calls[i]) /\ (ReportsBlock(calls[i].response) \/ VerdictUnsafe(calls[i].response))
         => Rejected(calls[i], "invalid-argument") /\ NoCommentBy(i)

C2_Witness ==
  \E i, j \in DOMAIN calls :
    /\ CommentsBy(i) # {}
    /\ Prop(calls[i].data, "text").v # Trim(Prop(calls[i].data, "text").v)
    /\ Answered(calls[j]) /\ VerdictUnsafe(calls[j].response)
    /\ calls[j].response.text # <<"U", "N", "S", "A", "F", "E">>
    /\ Rejected(calls[j], "invalid-argument")

ValidPayload(data) == ~Nullish(data) /\ CheckInput(data).kind = "valid"

\* C7: a call with no identity is rejected with unauthenticated and a call of an
\* anonymous session with permission-denied, whatever the payload; neither
\* reaches the classifier or stores a comment.
C7_IdentityCheckedFirst ==
  \A i \in DOMAIN calls :
    /\ ~Authenticated(calls[i].auth) =>
         /\ Rejected(calls[i], "unauthenticated")
         /\ calls[i].classifierCalls = 0 /\ NoCommentBy(i)
    /\ IsAnonymous(calls[i].auth) =>
         /\ Rejected(calls[i], "permission-denied")
         /\ calls[i].classifierCalls = 0 /\ NoCommentBy(i)

C7_Witness ==
  \E i, j \in DOMAIN calls :
    /\ ~Authenticated(calls[i].auth) /\ ~ValidPayload(calls[i].data)
    /\ IsAnonymous(calls[j].auth) /\ ValidPayload(calls[j].data)
    /\ Rejected(calls[j], "permission-denied")

IsString(x) == x.t = "string"

\* postId or text missing or not a string, or the trimmed text empty or too long.
InputFault(data) ==
  \/ ~IsString(Prop(data, "pubId"))
  \/ ~IsString(Prop(data, "text"))
  \/ Len(Trim(Prop(data, "text").v)) = 0
  \/ Len(Trim(Prop(data, "text").v)) > MaxCommentLength

NonEmptyString(x) == IsString(x) /\ Len(x.v) > 0

\* The comment the claim expects of a call, the timestamp aside.
ExpectedComment(call) ==
  [text |-> Str(Trim(Prop(call.data, "text").v)),
   userId |-> Prop(call.auth, "uid"),
   userName |-> IF NonEmptyString(Prop(Prop(call.auth, "token"), "name"))
                  THEN Prop(Prop(call.auth, "token"), "name") ELSE Str(<<"U", "t", "e", "n", "t", "e">>),
   userImage |-> IF NonEmptyString(Prop(Prop(call.auth, "token"), "picture"))
                   THEN Prop(Prop(call.auth, "token"), "picture") ELSE Null,
   flagCount |-> Num(0),
   isHidden |-> Bool(FALSE)]

WithoutTimestamp(d) == [f \in DOMAIN d \ {"timestamp"} |-> d[f]]

\* C9: a call that passed the checks and whose answer has no block reason and
\* no UNSAFE in the verdict is not refused; when its write has succeeded it has
\* returned success and exactly one comment of it exists, under its post, with
\* the fields of the claim.
C9_SafeCommentPersisted ==
  \A i \in DOMAIN calls :
    /\ Answered(calls[i])
    /\ ~ReportsBlock(calls[i].response) /\ ~VerdictUnsafe(calls[i].response)
    =>
    /\ calls[i].addCalls = 1
    /\ calls[i].pc = "done" /\ calls[i].raised = Undefined =>
         /\ calls[i].outcome = Success
         /\ Cardinality(CommentsBy(i)) = 1
         /\ \A pk \in CommentsBy(i) :
              /\ Str(pk[1]) = Prop(calls[i].data, "pubId")
              /\ "timestamp" \in DOMAIN comments[pk[1]][pk[2]].data
              /\ WithoutTimestamp(comments[pk[1]][pk[2]].data) = ExpectedComment(calls[i])
    /\ calls[i].outcome = Success <=> calls[i].pc = "done" /\ calls[i].raised = Undefined

C9_Witness ==
  \E i, j \in DOMAIN calls :
    /\ calls[i].outcome = Success /\ calls[j].outcome = Success
    /\ calls[i].response.text = <<>>
    /\ Prop(Prop(calls[i].auth, "token"), "name") = Undefined
    /\ calls[j].response.text = <<"S", "A", "F", "E">>
    /\ NonEmptyString(Prop(Prop(calls[j].auth, "token"), "name"))
    /\ Prop(calls[j].data, "text").v # calls[j].trimmedText
    /\ \E p \in PostIds : Len(comments[p]) = 2

\* C10: an error raised in the try block that is no HttpsError reaches the
\* caller as internal and no comment is stored; an HttpsError raised there
\* reaches the caller as it is.
C10_FailuresBecomeInternal ==
  \A i \in DOMAIN calls :
    calls[i].raised # Undefined =>
      /\ calls[i].pc = "done"
      /\ calls[i].raised.class # "HttpsError" =>
           Rejected(calls[i], "internal") /\ NoCommentBy(i)
      /\ calls[i].raised.class = "HttpsError" =>
           /\ calls[i].outcome = Throws(calls[i].raised)
           /\ calls[i].raised.code = "invalid-argument"
           /\ NoCommentBy(i)

C10_Witness ==
  \E i, j \in DOMAIN calls :
    /\ calls[i].raised = ServiceError /\ calls[i].addCalls = 1
    /\ calls[j].raised = HttpsError("invalid-argument")
    /\ Rejected(calls[j], "invalid-argument")

TypedKinds == {"unauthenticated", "permission-denied", "invalid-argument", "internal"}

\* C11: every completed call has returned success or thrown an HttpsError of
\* one of the four kinds, whatever the payload and the identity claims.
C11_OnlyTypedOutcomes ==
  \A i \in DOMAIN calls :
    calls[i].pc = "done" =>
      \/ calls[i].outcome = Success
      \/ /\ calls[i].outcome.kind = "throws"
         /\ calls[i].outcome.error.class = "HttpsError"
         /\ calls[i].outcome.error.code \in TypedKinds

\* An invocation of updateLikesCount that met a failure, at the read or at the update.
ULCFailed(inv) == inv.pc = "done" /\ inv.error

\* C12: every invocation of updateLikesCount ends by returning null, whether the
\* read or the update failed; the step on which it fails leaves every post as
\* it was; and it issues one read and at most one update, none after it ended.
C12_FailureSwallowed ==
  [][\A i \in DOMAIN ulc :
       /\ (ulc[i].pc # "done" /\ ulc'[i].pc = "done") =>
            /\ ulc'[i].outcome = ReturnsNull
            /\ ulc'[i].error => posts' = posts
       /\ ulc[i].pc = "done" => ulc'[i] = ulc[i]
       /\ ulc'[i].gets = 1
       /\ ulc'[i].updates <= 1
       /\ (ulc'[i].error /\ ulc[i].pc = "get") => ulc'[i].updates = 0]_vars

\* A read failed in one invocation and an update on an existing post, whose
\* count differs from the stored one, failed in another.
C12_Witness ==
  \E i, j \in DOMAIN ulc :
    /\ ULCFailed(ulc[i]) /\ ulc[i].updates = 0
    /\ ULCFailed(ulc[j]) /\ ulc[j].updates = 1
    /\ posts[ulc[j].pubId] # NoDoc
    /\ posts[ulc[j].pubId].likes # ulc[j].likesCount
    /\ ulc[j].outcome = ReturnsNull

\* A run of calculateDailyWinner whose query or write failed.
CDWFailed(run) == run.pc = "done" /\ run.wrote = NoDoc

\* The record a run must write for the posts its query returned.
CorrectRecord(run) ==
  IF run.snapshot = <<>> THEN PlaceholderShape(run.wrote)
  ELSE /\ WinnerShape(run.wrote)
       /\ run.wrote.winner.likes = Num(MaxLikesOf(run.snapshot))
       /\ \E k \in DOMAIN run.snapshot : Str(run.snapshot[k].id) = run.wrote.winner.postId

\* C13: a run whose query or write fails returns null, issues no second query or
\* write, and the step on which it fails leaves the DailyWinner record as it
\* was; a run that succeeds after a failed one writes the correct record.
C13_FailedRunLeavesRecord ==
  [][/\ \A i \in DOMAIN cdw :
          /\ (cdw[i].pc # "done" /\ cdw'[i].pc = "done") =>
               /\ cdw'[i].outcome = ReturnsNull
               /\ CDWFailed(cdw'[i]) => dailyWinner' = dailyWinner
               /\ ~CDWFailed(cdw'[i]) => dailyWinner' = cdw'[i].wrote
          /\ cdw[i].pc = "done" => cdw'[i] = cdw[i]
          /\ cdw'[i].queries = 1
          /\ cdw'[i].sets <= 1
          /\ (CDWFailed(cdw'[i]) /\ cdw[i].pc = "query") => cdw'[i].sets = 0
     /\ \A i, j \in DOMAIN cdw' :
          (i < j /\ CDWFailed(cdw'[i]) /\ Persisted(j)') => CorrectRecord(cdw'[j])]_vars

\* The write of a run over a non-empty window failed, and a later run has
\* written a winner, which is the record now stored.
C13_Witness ==
  \E i, j \in DOMAIN cdw :
    /\ i < j
    /\ CDWFailed(cdw[i]) /\ cdw[i].sets = 1 /\ cdw[i].snapshot # <<>>
    /\ Persisted(j) /\ HasWinner(cdw[j].wrote)
    /\ dailyWinner = cdw[j].wrote
    /\ cdw[i].outcome = ReturnsNull

(***************************************************************************)
(* The three handlers together                                             *)
(***************************************************************************)
MaxInvocations == 3

\* The invocations of the three handlers started so far.
Invocations == Len(ulc) + Len(cdw) + Len(calls)

\* The calls and the classifier answers met while the handlers interleave.
JointRequests ==
  {<<GoogleAuth, Obj([pubId |-> Str(Pid(q)), text |-> OkText])>> : q \in 1..MaxPosts}
    \cup {<<AnonymousAuth, Obj([pubId |-> Str(Pid(1)), text |-> OkText])>>}

JointResponses ==
  {[text |-> <<"S", "A", "F", "E">>, blockReason |-> Undefined],
   [text |-> <<"U", "N", "S", "A", "F", "E">>, blockReason |-> Undefined]}

\* Clients create posts and likes and time passes, while invocations of the
\* three handlers interleave at their awaits.
Next ==
  \/ \E p \in PostIds : CreatePost(p, BareMeta, Undefined)
  \/ TickDay
  \/ Invocations < MaxInvocations /\ \E p \in PostIds, u \in Users : LikeCreate(p, u)
  \/ Invocations < MaxInvocations /\ \E p \in PostIds, u \in Users : LikeDelete(p, u)
  \/ Invocations < MaxInvocations /\ \E p \in PostIds, u \in Users : LikeUpdate(p, u)
  \/ \E i \in DOMAIN ulc : ULCGet(i)
  \/ \E i \in DOMAIN ulc : ULCGetFails(i)
  \/ \E i \in DOMAIN ulc : ULCUpdate(i)
  \/ \E i \in DOMAIN ulc : ULCUpdateFails(i)
  \/ Invocations < MaxInvocations /\ CDWStart
  \/ \E i \in DOMAIN cdw : CDWQuery(i)
  \/ \E i \in DOMAIN cdw : CDWQueryFails(i)
  \/ \E i \in DOMAIN cdw : CDWSet(i)
  \/ \E i \in DOMAIN cdw : CDWSetFails(i)
  \/ Invocations < MaxInvocations /\ \E r \in JointRequests : PCCall(r[1], r[2])
  \/ \E i \in DOMAIN calls, r \in JointResponses : PCClassified(i, r)
  \/ \E i \in DOMAIN calls : PCClassifierFails(i)
  \/ \E i \in DOMAIN calls : PCAdded(i)
  \/ \E i \in DOMAIN calls : PCAddFails(i)

Spec == Init /\ [][Next]_vars

\* A step taken by a running invocation of each handler (a start appends one).
ULCStep == Len(ulc') = Len(ulc) /\ ulc' # ulc
CDWStep == cdw' # cdw
PCStep == calls' # calls

\* The post is the same but for its likes field.
SameButLikes(old, new) ==
  /\ old # NoDoc /\ new # NoDoc
  /\ [new EXCEPT !.likes = old.likes] = old

\* The comments under p grew by one comment and no other changed.
OneCommentAdded(p) ==
  /\ Len(comments'[p]) = Len(comments[p]) + 1
  /\ SubSeq(comments'[p], 1, Len(comments[p])) = comments[p]
  /\ \A q \in PostIds \ {p} : comments'[q] = comments[q]

\* C14: a step of updateLikesCount changes at most the likes field of its own,
\* existing post; a step of calculateDailyWinner changes at most the DailyWinner
\* record; a step of postComment at most adds one comment under its target
\* post; so no handler creates or deletes a post or a like document.
C14_WriteSets ==
  [][/\ ULCStep =>
          /\ likesDocs' = likesDocs /\ comments' = comments /\ dailyWinner' = dailyWinner
          /\ \A p \in PostIds :
               \/ posts'[p] = posts[p]
               \/ /\ SameButLikes(posts[p], posts'[p])
                  /\ \E i \in DOMAIN ulc :
                       /\ ulc[i].pubId = p /\ ulc[i].pc = "update" /\ ulc'[i].pc = "done"
                       /\ posts'[p].likes = ulc[i].likesCount
     /\ CDWStep => posts' = posts /\ likesDocs' = likesDocs /\ comments' = comments
     /\ PCStep =>
          /\ posts' = posts /\ likesDocs' = likesDocs /\ dailyWinner' = dailyWinner
          /\ \/ comments' = comments
             \/ \E i \in DOMAIN calls :
                  /\ calls[i].pc = "add" /\ calls'[i].outcome = Success
                  /\ \E p \in PostIds : p = calls[i].pubId /\ OneCommentAdded(p)
     /\ \A p \in PostIds :
          (posts[p] # NoDoc /\ posts'[p] # posts[p]) => ULCStep]_vars

\* An invocation of updateLikesCount has changed the likes of its post, another
\* has failed on a post that still does not exist though a like lies under it,
\* and a run of calculateDailyWinner has written the record.
C14_Witness ==
  /\ \E i, j \in DOMAIN ulc :
       /\ ulc[i].pc = "done" /\ ~ulc[i].error
       /\ posts[ulc[i].pubId].likes = ulc[i].likesCount
       /\ ulc[i].overwrote # ulc[i].likesCount
       /\ ULCFailed(ulc[j]) /\ ulc[j].updates = 1
       /\ posts[ulc[j].pubId] = NoDoc /\ likesDocs[ulc[j].pubId] # {}
  /\ \E k \in DOMAIN cdw : Persisted(k) /\ dailyWinner = cdw[k].wrote

\* The calls that have returned {success: true}.
Succeeded == {i \in DOMAIN calls : calls[i].outcome = Success}

RECURSIVE CommentsUnder(_)
CommentsUnder(S) ==
  IF S = {} THEN 0
  ELSE LET q == CHOOSE q \in S : TRUE IN Len(comments[q]) + CommentsUnder(S \ {q})

\* C15: whatever the interleaving, the comments stored are as many as the calls
\* that returned success, each such call has exactly one comment, under the post
\* its request names, and no step changes or removes a comment already stored.
C15_NoLostComments ==
  [][/\ \A p \in PostIds :
          /\ Len(comments[p]) <= Len(comments'[p])
          /\ SubSeq(comments'[p], 1, Len(comments[p])) = comments[p]
     /\ CommentsUnder(PostIds)' = Cardinality(Succeeded')
     /\ \A i \in Succeeded' :
          /\ Cardinality({k \in DOMAIN comments'[calls'[i].pubId] :
                            comments'[calls'[i].pubId][k].id = i}) = 1
          /\ Str(calls'[i].pubId) = Prop(calls'[i].data, "pubId")]_vars

\* Two calls for the same post were in flight together and both returned
\* success, the later call's comment being stored first.
C15_Witness ==
  \E p \in PostIds :
    /\ Len(comments[p]) = 2
    /\ comments[p][1].id = 2 /\ comments[p][2].id = 1
    /\ Succeeded = {1, 2}

\* Invocation i of updateLikesCount completes its update on this step, no like
\* of its post having been created or deleted since its read.
CleanWrite(i) ==
  /\ ulc[i].pc = "update" /\ ulc'[i].pc = "done"
  /\ ~ulc'[i].error /\ ~ulc[i].dirty

\* C16: an invocation that succeeds with no like created or deleted between its
\* read and its write leaves Post.likes equal to the number of like documents of
\* the post, whatever likes held before; where likes already held that number,
\* the post is left as it was.
C16_SelfHealingRecount ==
  [][\A i \in DOMAIN ulc :
       CleanWrite(i) =>
         LET p == ulc[i].pubId
         IN  /\ posts'[p].likes = Num(Cardinality(likesDocs'[p]))
             /\ posts[p].likes = Num(Cardinality(likesDocs[p])) => posts' = posts]_vars

\* One such invocation has replaced a count that was wrong, and a later one has
\* written the same count again.
C16_Witness ==
  \E i, j \in DOMAIN ulc :
    /\ i # j /\ ulc[i].pubId = ulc[j].pubId
    /\ ulc[i].pc = "done" /\ ~ulc[i].error /\ ~ulc[i].dirty
    /\ ulc[i].overwrote.t = "number" /\ ulc[i].overwrote # ulc[i].likesCount
    /\ ulc[j].pc = "done" /\ ~ulc[j].error /\ ~ulc[j].dirty
    /\ ulc[j].overwrote = ulc[j].likesCount
    /\ ulc[j].likesCount = ulc[i].likesCount
    /\ posts[ulc[i].pubId].likes = Num(Cardinality(likesDocs[ulc[i].pubId]))

\* The identity, structural and content checks all pass for the call.
ChecksPass(call) ==
  /\ Authenticated(call.auth) /\ ~IsAnonymous(call.auth)
  /\ ~Nullish(call.data) /\ ~InputFault(call.data)

JudgedSafe(call) ==
  Answered(call) /\ ~ReportsBlock(call.response) /\ ~VerdictUnsafe(call.response)

\* C17: a call reaches the classifier at most once and only when its checks
\* passed, issues the write at most once and only when the classifier has
\* answered and the answer was judged safe, stores a comment only through that
\* write, and does nothing more once it has thrown or returned.
C17_LinearShortCircuit ==
  [][\A i \in DOMAIN calls' :
       LET call == calls'[i]
       IN  /\ call.classifierCalls \in {0, 1}
           /\ call.addCalls \in {0, 1}
           /\ call.classifierCalls = 1 => ChecksPass(call)
           /\ call.addCalls = 1 => call.classifierCalls = 1 /\ JudgedSafe(call)
           /\ call.pc = "classify" => call.classifierCalls = 1 /\ call.addCalls = 0 /\ ~Answered(call)
           /\ CommentsBy(i)' # {} => call.addCalls = 1 /\ call.outcome = Success
           /\ Cardinality(CommentsBy(i)') <= 1
           /\ (i \in DOMAIN calls /\ calls[i].pc = "done") =>
                /\ call = calls[i]
                /\ CommentsBy(i)' = CommentsBy(i)]_vars

\* One call went through every step and stored its comment; another was
\* stopped by the classifier's answer and issued no write.
C17_Witness ==
  \E i, j \in DOMAIN calls :
    /\ calls[i].outcome = Success
    /\ calls[i].classifierCalls = 1 /\ calls[i].addCalls = 1
    /\ Cardinality(CommentsBy(i)) = 1
    /\ Rejected(calls[j], "invalid-argument")
    /\ calls[j].classifierCalls = 1 /\ Answered(calls[j]) /\ calls[j].addCalls = 0
    /\ NoCommentBy(j)

\* C18: the value an invocation writes to Post.likes is a size the likes
\* subcollection of its post had between the invocation's start and its write;
\* a count stored by the handler is never negative and never above the largest
\* size that subcollection has reached.
C18_WrittenCountWasObserved ==
  [][/\ \A i \in DOMAIN ulc :
          (ulc[i].pc = "update" /\ ulc'[i].pc = "done" /\ ~ulc'[i].error) =>
            /\ posts'[ulc[i].pubId].likes.t = "number"
            /\ posts'[ulc[i].pubId].likes.v \in ulc[i].cards
     /\ \A p \in PostIds :
          (posts'[p] # NoDoc /\ posts'[p].likes.t = "number") =>
            /\ posts'[p].likes.v >= 0
            /\ posts'[p].likes.v <= peak'[p]]_vars

\* An invocation saw the subcollection at several sizes and wrote one that is
\* neither the present size nor the largest reached.
C18_Witness ==
  \E i \in DOMAIN ulc :
    LET p == ulc[i].pubId
    IN  /\ ulc[i].pc = "done" /\ ~ulc[i].error
        /\ posts[p].likes = ulc[i].likesCount
        /\ Cardinality(ulc[i].cards) >= 2
        /\ ulc[i].likesCount.v \in ulc[i].cards
        /\ ulc[i].likesCount.v # Cardinality(likesDocs[p])
        /\ ulc[i].likesCount.v < peak[p]

\* The timestamp is not earlier than 24 hours before the instant at.
WithinDayBefore(ts, at) ==
  \/ ts.seconds > at.seconds - 24 * 60 * 60
  \/ ts.seconds = at.seconds - 24 * 60 * 60 /\ ts.nanoseconds >= at.nanoseconds

\* C19: a record written with hasWinner=true has a winner that is not null,
\* whose postId is the id of a post the window query returned, whose timestamp
\* is not earlier than the run instant minus 24 hours, and whose likes is the
\* likes field of that post as the query read it, 0 when the field is missing.
C19_WinnerComesFromQuery ==
  \A i \in DOMAIN cdw :
    (Persisted(i) /\ cdw[i].wrote.hasWinner) =>
      LET w == cdw[i].wrote.winner
          docs == cdw[i].snapshot
      IN  /\ w # Null
          /\ \E k \in DOMAIN docs :
               /\ w.postId = Str(docs[k].id)
               /\ WithinDayBefore(docs[k].data.timestamp, cdw[i].at)
               /\ w.timestamp = docs[k].data.timestamp
               /\ w.likes = Num(LikesOf(docs[k].data))

\* The winner was taken from a window that an older post with as many likes
\* had left, and its likes is the stored field, which is not the number of its
\* like documents.
C19_Witness ==
  \E i \in DOMAIN cdw :
    /\ Persisted(i) /\ cdw[i].wrote.hasWinner
    /\ \E p \in PostIds :
         /\ cdw[i].wrote.winner.postId = Str(p)
         /\ cdw[i].wrote.winner.likes.v # Cardinality(likesDocs[p])
    /\ \E q \in PostIds :
         /\ posts[q] # NoDoc
         /\ ~WithinDayBefore(posts[q].timestamp, cdw[i].at)
         /\ LikesOf(posts[q]) >= cdw[i].wrote.winner.likes.v

====
